---- MODULE Spec2Model ----
(***************************************************************************)
(* Model of the BEM potential-field driver of trapsim-notebooks:           *)
(*   compute(start, stop), parse_param, read_grid_info (bemsolver/         *)
(*   compute.cpp) and compute_potential (simulate.cpp), with the working   *)
(*   directory they share: grid.txt, layout.dxf, gen.cache/savedworld.data *)
(*   and the field<i>.txt output files.                                    *)
(***************************************************************************)
EXTENDS Integers, Sequences, FiniteSets, TLC

(***************************************************************************)
(* Bounds of the model.                                                    *)
(***************************************************************************)
\* width of size_t in the model: string positions are computed modulo 2^SizeBits
SizeBits == 8
\* an uninitialised int left by a failed stream extraction holds one of 0..GarbageMax
GarbageMax == 1
\* electrode indices handed to compute() range over -MaxNeg..MaxIdx
MaxNeg == 1
MaxIdx == 3
\* compute(start, stop) is called with stop - start in -1..MaxSpan
MaxSpan == 2

(***************************************************************************)
(* std::string, as sequences of one-character strings.                     *)
(***************************************************************************)
SizeMod == 2 ^ SizeBits
\* std::string::npos
npos == SizeMod - 1

Min(a, b) == IF a < b THEN a ELSE b

WS == {" ", "\t"}

DigitChars == <<"0", "1", "2", "3", "4", "5", "6", "7", "8", "9">>

IsDigit(c) == \E d \in 1..10 : DigitChars[d] = c

DigitVal(c) == (CHOOSE d \in 1..10 : DigitChars[d] = c) - 1

\* s.find(c): 0-based position of the first c, or npos
find(s, c) ==
    IF \E i \in 1..Len(s) : s[i] = c
    THEN (CHOOSE i \in 1..Len(s) : s[i] = c /\ \A j \in 1..(i - 1) : s[j] # c) - 1
    ELSE npos

\* s.find_first_not_of(set)
find_first_not_of(s, set) ==
    IF \E i \in 1..Len(s) : s[i] \notin set
    THEN (CHOOSE i \in 1..Len(s) : s[i] \notin set /\ \A j \in 1..(i - 1) : s[j] \in set) - 1
    ELSE npos

\* s.find_last_not_of(set)
find_last_not_of(s, set) ==
    IF \E i \in 1..Len(s) : s[i] \notin set
    THEN (CHOOSE i \in 1..Len(s) : s[i] \notin set /\ \A j \in (i + 1)..Len(s) : s[j] \in set) - 1
    ELSE npos

\* s.substr(pos, n): throws std::out_of_range when pos > size(), else the
\* characters [pos, pos + min(n, size() - pos))
substr_throws(s, pos) == pos > Len(s)

substr(s, pos, n) == SubSeq(s, pos + 1, pos + Min(n, Len(s) - pos))

\* the decimal digits of a natural number, most significant first
RECURSIVE Digits(_)
Digits(n) ==
    IF n < 10 THEN <<DigitChars[n + 1]>>
    ELSE Digits(n \div 10) \o <<DigitChars[(n % 10) + 1]>>

\* operator<<(int): the decimal text of i
Decimal(i) == IF i < 0 THEN <<"-">> \o Digits(-i) ELSE Digits(i)

\* the value of the leading digit run of s, accumulated left to right from acc
RECURSIVE ReadDigits(_, _)
ReadDigits(s, acc) ==
    IF s # <<>> /\ IsDigit(s[1])
    THEN ReadDigits(Tail(s), 10 * acc + DigitVal(s[1]))
    ELSE acc

RECURSIVE SkipWs(_)
SkipWs(s) == IF s # <<>> /\ s[1] \in WS THEN SkipWs(Tail(s)) ELSE s

\* operator>>(T&) on a stringstream holding s, for T = int and T = double: skip
\* white space, read an optional sign and a digit run.  The grid files of the
\* model hold integral values only, so both instantiations read the same text.
\* With no digit to read the extraction fails and val keeps the indeterminate
\* value g it was declared with (T val; stm >> val;).
extract(s, g) ==
    LET t == SkipWs(s)
        neg == t # <<>> /\ t[1] = "-"
        u == IF t # <<>> /\ t[1] \in {"-", "+"} THEN Tail(t) ELSE t
    IN  IF u # <<>> /\ IsDigit(u[1])
        THEN [failed |-> FALSE,
              val |-> IF neg THEN 0 - ReadDigits(u, 0) ELSE ReadDigits(u, 0)]
        ELSE [failed |-> TRUE, val |-> g]

\* parse_param<T>(in) on the line std::getline read; g is the indeterminate
\* initial value of val.  thrown: rhs.substr(begin, ...) threw std::out_of_range.
parse_param(line, g) ==
    LET idx == (find(line, ":") + 1) % SizeMod
        rhs == substr(line, idx, npos)
        begin == find_first_not_of(line, WS)
        end == find_last_not_of(line, WS)
        strval == substr(rhs, begin, (end - begin + 1) % SizeMod)
    IN  IF substr_throws(rhs, begin)
        THEN [thrown |-> TRUE, failed |-> FALSE, val |-> 0]
        ELSE [thrown |-> FALSE, failed |-> extract(strval, g).failed,
              val |-> extract(strval, g).val]

(***************************************************************************)
(* grid.txt: a sequence of lines.  The empty sequence is also what a missing *)
(* or unreadable file reads as: std::ifstream fails to open and every        *)
(* std::getline leaves its line empty.                                       *)
(***************************************************************************)
Spaces(n) == [k \in 1..n |-> " "]

Labels ==
    << <<"n","u","m","_","e","l","e","c","t","r","o","d","e","s">>,
       <<"d","i","m","x">>, <<"d","i","m","y">>, <<"d","i","m","z">>,
       <<"s","t","a","r","t","x">>, <<"s","t","a","r","t","y">>,
       <<"s","t","a","r","t","z">>,
       <<"e","n","d","x">>, <<"e","n","d","y">>, <<"e","n","d","z">> >>

\* the ten declared values, in the order of the value lines
Fields(d) ==
    <<d.num_electrodes, d.dimx, d.dimy, d.dimz, d.startx, d.starty, d.startz,
      d.endx, d.endy, d.endz>>

Decl(n, dims) ==
    [num_electrodes |-> n, dimx |-> dims[1], dimy |-> dims[2], dimz |-> dims[3],
     startx |-> 0, starty |-> 4, startz |-> 5, endx |-> 6, endy |-> 7, endz |-> 12]

\* a value line: indent, label, colon, sep blanks, the value, trail blanks
ValueLine(indent, label, sep, text, trail) ==
    Spaces(indent) \o label \o <<":">> \o Spaces(sep) \o text \o Spaces(trail)

\* the grid file declaring d: sep blanks after every colon, trail blanks after
\* every value, and value line `at` (none when at = 0) indented by indent blanks
GridFile(d, at, indent, sep, trail) ==
    << <<"-", "-", "-">> >> \o
    [n \in 1..10 |->
        ValueLine(IF n = at THEN indent ELSE 0, Labels[n], sep,
                  Decimal(Fields(d)[n]), trail)]

\* f with value line n written without its colon / with a value that is no number
NoColon(f, d, n) ==
    [f EXCEPT ![n + 1] = Labels[n] \o <<" ">> \o Decimal(Fields(d)[n])]

NotNumeric(f, n) == [f EXCEPT ![n + 1] = Labels[n] \o <<":", " ", "x">>]

Truncated(f, k) == SubSeq(f, 1, k)

MissingFile == <<>>

\* std::getline for line n of the file: past the end the line stays empty
getline(f, n) == IF n <= Len(f) THEN f[n] ELSE <<>>

\* read_grid_info("grid.txt"): line 1 is discarded, value lines 2..11 are parsed
\* in order; g[n] is the indeterminate initial value of the n-th val
read_fields(f, g) == [n \in 1..10 |-> parse_param(getline(f, n + 1), g[n])]

read_throws(f, g) == \E n \in 1..10 : read_fields(f, g)[n].thrown

read_grid_info(f, g) ==
    LET p == read_fields(f, g)
    IN  [num_electrodes |-> p[1].val,
         dimx |-> p[2].val, dimy |-> p[3].val, dimz |-> p[4].val,
         startx |-> p[5].val, starty |-> p[6].val, startz |-> p[7].val,
         endx |-> p[8].val, endy |-> p[9].val, endz |-> p[10].val]

\* the choices of indeterminate values for f: one per value line whose
\* extraction fails, 0 for the others (they are overwritten)
Garbage(f) ==
    LET failing == {n \in 1..10 : parse_param(getline(f, n + 1), 0).failed}
    IN  {[n \in 1..10 |-> IF n \in failing THEN h[n] ELSE 0] :
            h \in [failing -> 0..GarbageMax]}

(***************************************************************************)
(* compute(start, stop) and compute_potential(electrodes, info, outfile)   *)
(***************************************************************************)
Procs == {1, 2, 3}

Idx == (0 - MaxNeg)..MaxIdx

FIELD_PREFIX == <<"f", "i", "e", "l", "d">>
FIELD_SUFFIX == <<".", "t", "x", "t">>

\* stm << FIELD_PREFIX << i << FIELD_SUFFIX
FieldFile(i) == FIELD_PREFIX \o Decimal(i) \o FIELD_SUFFIX

\* the null pointer passed as outfile by the priming call
NULL == <<>>

ActivationMirrorsZero(i, num_electrodes) ==
    {i} \cup (IF i >= 0 THEN {num_electrodes + i} ELSE {})

\* the activation set compute() builds for index i
Activation(i, num_electrodes) ==
    {i} \cup (IF i > 0 THEN {num_electrodes + i} ELSE {})

\* const int total_electrodes = 2 * info.num_electrodes + 2
total_electrodes(info) == 2 * info.num_electrodes + 2

\* the electrode names the loops over [0, total_electrodes) look up
ElectrodeNames(info) == {Decimal(e) : e \in 0..(total_electrodes(info) - 1)}

VoltagesOfFirstHalf(electrodes, info) ==
    [nm \in ElectrodeNames(info) \cup {<<"GROUND">>} |->
        IF \E e \in 0..(info.num_electrodes - 1) : nm = Decimal(e) /\ e \in electrodes
        THEN 1 ELSE 0]

\* SetVoltage over the loop of [0, total_electrodes) and on GROUND
Voltages(electrodes, info) ==
    [nm \in ElectrodeNames(info) \cup {<<"GROUND">>} |->
        IF \E e \in 0..(total_electrodes(info) - 1) : nm = Decimal(e) /\ e \in electrodes
        THEN 1 ELSE 0]

\* start + i * step with step = (end - start) / double(dim - 1), as the exact
\* fraction <<numerator, dim - 1>>; <<0, 0>> stands for the NaN that 0 * (x / 0.0)
\* yields when dim = 1
Coord(start, end, dim, i) ==
    IF dim = 1 THEN <<0, 0>> ELSE <<start * (dim - 1) + i * (end - start), dim - 1>>

\* the line written for grid index ijk: phi = wr->calc_slow(x, y, z), which is
\* determined by the point and by the voltages set on the electrodes
Phi(info, volt, ijk) ==
    [ijk |-> ijk,
     at |-> <<Coord(info.startx, info.endx, info.dimx, ijk[1]),
              Coord(info.starty, info.endy, info.dimy, ijk[2]),
              Coord(info.startz, info.endz, info.dimz, ijk[3])>>,
     unit |-> {nm \in DOMAIN volt : volt[nm] = 1}]

\* the nested for loops over i, j, k: the grid index after ijk, or <<>> when the
\* loops are over
NextPoint(info, ijk) ==
    IF ijk[3] + 1 < info.dimz THEN <<ijk[1], ijk[2], ijk[3] + 1>>
    ELSE IF ijk[2] + 1 < info.dimy THEN <<ijk[1], ijk[2] + 1, 0>>
    ELSE IF ijk[1] + 1 < info.dimx THEN <<ijk[1] + 1, 0, 0>>
    ELSE <<>>

\* the loops evaluate a point at all
HasPoints(info) == info.dimx > 0 /\ info.dimy > 0 /\ info.dimz > 0

SolveOnlyLoads(c) == "reading"

SolveAlwaysSaves(c) == "writing"

\* wr->solve() on a world constructed on savedworldname: the solver loads the
\* saved solution when the file exists, and solves and saves it when it does not
SolveAccess(c) == IF c = "present" THEN "reading" ELSE "writing"

NoInfo == [num_electrodes |-> 0, dimx |-> 0, dimy |-> 0, dimz |-> 0,
           startx |-> 0, starty |-> 0, startz |-> 0, endx |-> 0, endy |-> 0, endz |-> 0]

\* what the disk has room for when an output file is opened: no line, one line,
\* or every line of the file
Plenty == 0 - 1

Rooms == {0, 1, Plenty}

NoFile == [exists |-> FALSE, lines |-> <<>>]

OpenAppends(file) == [exists |-> TRUE, lines |-> file.lines]

\* std::ofstream datafile(outfile): the default mode creates the file or
\* truncates the one that is there
OpenOutput(file) == [exists |-> TRUE, lines |-> <<>>]

VARIABLES
    gridFile,   \* the lines of grid.txt
    layoutOK,   \* layout.dxf can be imported
    cacheDir,   \* the directory gen.cache exists
    cache,      \* gen.cache/savedworld.data: "absent" or "present"
    files,      \* the field<i>.txt files of the working directory
    proc,       \* the invocations of compute(), one record per process
    primed      \* a priming invocation has returned

vars == <<gridFile, layoutOK, cacheDir, cache, files, proc, primed>>

\* the indices a call of compute() can reach, and their output files
AllIdx == (0 - MaxNeg)..(MaxIdx + MaxSpan)

FileNames == {FieldFile(i) : i \in AllIdx}

Idle ==
    [pc |-> "idle", start |-> 0, stop |-> 0, i |-> 0, info |-> NoInfo,
     electrodes |-> {}, outfile |-> NULL, solved |-> FALSE, inserted |-> {},
     volt |-> <<>>, ijk |-> <<>>, good |-> FALSE, room |-> 0, access |-> "none",
     steps |-> {}, calls |-> <<>>, evals |-> <<>>, opened |-> {},
     out |-> <<>>, afterPrime |-> FALSE]

\* a process is launched and calls compute(start, stop)
Start(p, s, t) ==
    /\ proc[p].pc = "idle"
    /\ proc' = [proc EXCEPT ![p] =
            [Idle EXCEPT !.pc = "read_grid", !.start = s, !.stop = t,
                         !.afterPrime = primed]]
    /\ UNCHANGED <<gridFile, layoutOK, cacheDir, cache, files, primed>>

\* entry of compute_potential(electrodes, info, outfile)
Call(r, electrodes, outfile) ==
    [r EXCEPT !.pc = "import", !.electrodes = electrodes, !.outfile = outfile,
              !.solved = FALSE, !.inserted = {}, !.volt = <<>>, !.ijk = <<>>,
              !.good = FALSE, !.room = 0, !.steps = {}, !.evals = <<>>,
              !.out = <<>>,
              !.calls = Append(@, [i |-> r.i, electrodes |-> electrodes,
                                   outfile |-> outfile, done |-> FALSE,
                                   failed |-> FALSE])]

\* compute_potential returns to compute(): the priming branch is over, the
\* loop goes on with i++
Return(r, failed) ==
    [r EXCEPT !.pc = IF r.start = r.stop THEN "done" ELSE "loop",
              !.i = IF r.start = r.stop THEN @ ELSE @ + 1,
              !.access = "none",
              !.calls = [@ EXCEPT ![Len(@)].done = TRUE, ![Len(@)].failed = failed]]

\* grid_info info = read_grid_info("grid.txt"); if (start == stop) ... else for (i = start; ...)
ReadGrid(p) ==
    /\ proc[p].pc = "read_grid"
    /\ \E g \in Garbage(gridFile) :
        LET r == proc[p]
            info == read_grid_info(gridFile, g)
        IN  proc' = [proc EXCEPT ![p] =
                IF read_throws(gridFile, g) THEN [r EXCEPT !.pc = "aborted"]
                ELSE IF r.start = r.stop
                THEN Call([r EXCEPT !.info = info], {}, NULL)
                ELSE [r EXCEPT !.info = info, !.i = r.start, !.pc = "loop"]]
    /\ UNCHANGED <<gridFile, layoutOK, cacheDir, cache, files, primed>>

\* for (...; i < stop; ...): build the activation set and the output path, call
\* compute_potential; or leave the loop and return
Loop(p) ==
    /\ proc[p].pc = "loop"
    /\ LET r == proc[p]
       IN  /\ proc' = [proc EXCEPT ![p] =
                IF r.i < r.stop
                THEN Call(r, Activation(r.i, r.info.num_electrodes), FieldFile(r.i))
                ELSE [r EXCEPT !.pc = "done"]]
    /\ UNCHANGED <<gridFile, layoutOK, cacheDir, cache, files, primed>>

\* gSystem->mkdir("gen.cache"); impel->Import("layout.dxf"), returning when it fails
Import(p) ==
    /\ proc[p].pc = "import"
    /\ cacheDir' = TRUE
    /\ LET r == [proc[p] EXCEPT !.steps = @ \cup {"import"}]
       IN  /\ proc' = [proc EXCEPT ![p] =
                IF layoutOK THEN [r EXCEPT !.pc = "build"] ELSE Return(r, TRUE)]
           /\ primed' = (primed \/ (~layoutOK /\ r.start = r.stop))
    /\ UNCHANGED <<gridFile, layoutOK, cache, files>>

\* new D3world(savedworldname, ...); insert electrodes 0..total-1 and GROUND;
\* refine(100); correctNorm(0, 0, 0)
Build(p) ==
    /\ proc[p].pc = "build"
    /\ proc' = [proc EXCEPT ![p] =
            [@ EXCEPT !.pc = "solve",
                      !.inserted = ElectrodeNames(proc[p].info) \cup {<<"GROUND">>},
                      !.steps = @ \cup {"build", "insert", "refine"}]]
    /\ UNCHANGED <<gridFile, layoutOK, cacheDir, cache, files, primed>>

\* wr->solve() starts: it reads the saved world or starts to construct it
SolveBegin(p) ==
    /\ proc[p].pc = "solve"
    /\ proc' = [proc EXCEPT ![p] =
            [@ EXCEPT !.pc = "solving", !.access = SolveAccess(cache),
                      !.steps = @ \cup {"solve"}]]
    /\ UNCHANGED <<gridFile, layoutOK, cacheDir, cache, files, primed>>

\* wr->solve() ends: a constructed world has been saved
SolveEnd(p) ==
    /\ proc[p].pc = "solving"
    /\ cache' = IF proc[p].access = "writing" THEN "present" ELSE cache
    /\ proc' = [proc EXCEPT ![p] =
            [@ EXCEPT !.pc = "prepare", !.access = "none", !.solved = TRUE]]
    /\ UNCHANGED <<gridFile, layoutOK, cacheDir, files, primed>>

\* if (electrodes.empty()) return; the step sizes; SetVoltage on every electrode
\* and GROUND; std::ofstream datafile(outfile)
Prepare(p) ==
    /\ proc[p].pc = "prepare"
    /\ LET r == proc[p]
       IN  IF r.electrodes = {}
           THEN /\ proc' = [proc EXCEPT ![p] = Return(r, FALSE)]
                /\ primed' = (primed \/ r.start = r.stop)
                /\ UNCHANGED files
           ELSE \E ok \in BOOLEAN, room \in Rooms :
                /\ ~ok => room = 0
                /\ proc' = [proc EXCEPT ![p] =
                        [r EXCEPT !.pc = IF HasPoints(r.info) THEN "grid" ELSE "close",
                                  !.volt = Voltages(r.electrodes, r.info),
                                  !.ijk = IF HasPoints(r.info) THEN <<0, 0, 0>> ELSE <<>>,
                                  !.good = ok, !.room = room,
                                  !.opened = IF ok THEN @ \cup {r.outfile} ELSE @]]
                /\ files' = IF ok
                            THEN [files EXCEPT ![r.outfile] = OpenOutput(files[r.outfile])]
                            ELSE files
                /\ UNCHANGED primed
    /\ UNCHANGED <<gridFile, layoutOK, cacheDir, cache>>

\* one pass of the innermost loop body: phi = wr->calc_slow(...);
\* datafile << phi << std::endl; a write that fails leaves the stream bad
EvalPoint(p) ==
    /\ proc[p].pc = "grid"
    /\ LET r == proc[p]
           nxt == NextPoint(r.info, r.ijk)
           ok == r.good /\ (r.room = Plenty \/ Len(r.evals) < r.room)
       IN  /\ proc' = [proc EXCEPT ![p] =
                   [r EXCEPT !.pc = IF nxt = <<>> THEN "close" ELSE "grid",
                             !.ijk = nxt,
                             !.good = ok,
                             !.out = IF ok THEN Append(@, Phi(r.info, r.volt, r.ijk))
                                     ELSE @,
                             !.evals = Append(@, r.ijk)]]
           /\ files' = IF ok
                       THEN [files EXCEPT ![r.outfile].lines =
                                Append(@, Phi(r.info, r.volt, r.ijk))]
                       ELSE files
    /\ UNCHANGED <<gridFile, layoutOK, cacheDir, cache, primed>>

\* datafile.close(); "Finished processing."; return
Close(p) ==
    /\ proc[p].pc = "close"
    /\ proc' = [proc EXCEPT ![p] = Return(@, ~@.good)]
    /\ UNCHANGED <<gridFile, layoutOK, cacheDir, cache, files, primed>>

Step(p) ==
    \/ ReadGrid(p)
    \/ Loop(p)
    \/ Import(p)
    \/ Build(p)
    \/ SolveBegin(p)
    \/ SolveEnd(p)
    \/ Prepare(p)
    \/ EvalPoint(p)
    \/ Close(p)

(***************************************************************************)
(* Spec: one process runs compute() alone in a fresh working directory.    *)
(***************************************************************************)
Decls == {Decl(1, <<2, 3, 2>>), Decl(2, <<1, 2, 2>>)}

D1 == Decl(1, <<2, 3, 2>>)

GridFiles ==
    {GridFile(d, 0, 0, 1, 0) : d \in Decls}
    \cup {GridFile(D1, 2, 1, 0, 0), GridFile(D1, 10, 1, 0, 0),
          GridFile(D1, 3, 2, 0, 0), GridFile(D1, 0, 0, 2, 1), NoColon(GridFile(D1, 0, 0, 1, 0), D1, 1),
          NotNumeric(GridFile(D1, 0, 0, 1, 0), 3), Truncated(GridFile(D1, 0, 0, 1, 0), 9),
          MissingFile}

Ranges == {<<s, s + d>> : s \in Idx, d \in (0 - 1)..MaxSpan}

InitDir ==
    /\ layoutOK \in BOOLEAN
    /\ cacheDir = FALSE
    /\ cache = "absent"
    /\ files = [f \in FileNames |-> NoFile]
    /\ proc = [p \in Procs |-> Idle]
    /\ primed = FALSE

Init ==
    /\ gridFile \in GridFiles
    /\ InitDir

Next ==
    \/ \E st \in Ranges : Start(1, st[1], st[2])
    \/ Step(1)

Spec == Init /\ [][Next]_vars

(***************************************************************************)
(* SpecPar: the caller launches a priming process and two sampling         *)
(* processes, in any order and with any overlap.                           *)
(***************************************************************************)
Samplers == {2, 3}

ParGrid == GridFile(Decl(1, <<2, 1, 1>>), 0, 0, 1, 0)

ParRanges == {<<0, 1>>, <<1, 2>>}

InitPar ==
    /\ gridFile = ParGrid
    /\ InitDir

NextPar ==
    \/ \E s \in {0, 2} : Start(1, s, s)
    \/ \E p \in Samplers, st \in ParRanges : Start(p, st[1], st[2])
    \/ \E p \in Procs : Step(p)

SpecPar == InitPar /\ [][NextPar]_vars

(***************************************************************************)
(* SpecSeq: the caller runs a priming process, then a sampling process for *)
(* one index, then a second sampling process for one index, each after the *)
(* one before has returned; grid.txt and layout.dxf stay as they are.      *)
(***************************************************************************)
SeqGrids == {GridFile(D1, 0, 0, 1, 0), ParGrid}

SeqIdx == {0, 1}

InitSeq ==
    /\ gridFile \in SeqGrids
    /\ InitDir

NextSeq ==
    \/ Start(1, 0, 0)
    \/ \E p \in Samplers, i \in SeqIdx :
            /\ proc[p - 1].pc = "done"
            /\ Start(p, i, i + 1)
    \/ \E p \in Procs : Step(p)

SpecSeq == InitSeq /\ [][NextSeq]_vars

(***************************************************************************)
(* Notions of the grid format used to state the properties: a value line's *)
(* payload is the text after its first colon, trimmed of blanks and tabs.  *)
(***************************************************************************)
RECURSIVE TrimLeft(_)
TrimLeft(s) == IF s # <<>> /\ s[1] \in WS THEN TrimLeft(Tail(s)) ELSE s

RECURSIVE TrimRight(_)
TrimRight(s) ==
    IF s # <<>> /\ s[Len(s)] \in WS THEN TrimRight(SubSeq(s, 1, Len(s) - 1)) ELSE s

HasColon(line) == \E k \in 1..Len(line) : line[k] = ":"

Payload(line) ==
    LET k == CHOOSE c \in 1..Len(line) : line[c] = ":" /\ \A b \in 1..(c - 1) : line[b] # ":"
    IN  TrimRight(TrimLeft(SubSeq(line, k + 1, Len(line))))

IsNumeral(t) == t # <<>> /\ \A k \in 1..Len(t) : IsDigit(t[k])

\* value line n of f is well formed
GoodLine(f, n) ==
    /\ n + 1 <= Len(f)
    /\ HasColon(f[n + 1])
    /\ IsNumeral(Payload(f[n + 1]))

\* the value value line n declares
Declared(f, n) == ReadDigits(Payload(f[n + 1]), 0)

Malformed(f) == \E n \in 1..10 : ~GoodLine(f, n)

ValidGrid(f) ==
    /\ \A n \in 1..10 : GoodLine(f, n)
    /\ \A n \in 2..4 : Declared(f, n) >= 2

Sampling(r) == r.pc # "idle" /\ r.start # r.stop

Priming(r) == r.pc # "idle" /\ r.start = r.stop

LastCall(r) == r.calls[Len(r.calls)]

(***************************************************************************)
(* C1: every invocation with start = stop that has returned made one call  *)
(* of compute_potential, with the empty activation set; the world was      *)
(* built and solved; no grid point was evaluated and no field file was     *)
(* created or written.                                                     *)
(***************************************************************************)
C1_PrimingBuildsAndSolves ==
    \A p \in Procs :
        LET r == proc[p]
        IN  Priming(r) /\ r.pc = "done" =>
                /\ Len(r.calls) = 1
                /\ r.calls[1].electrodes = {}
                /\ r.solved
                /\ {"build", "refine", "solve"} \subseteq r.steps
                /\ r.evals = <<>>
                /\ r.opened = {}

\* the part of C1 that does not depend on the import: a priming invocation
\* never evaluates a grid point and never opens a file, and it has built and
\* solved the world when it returns after a successful import
C1_PrimingWhenImported ==
    \A p \in Procs :
        LET r == proc[p]
        IN  Priming(r) =>
                /\ r.evals = <<>> /\ r.opened = {}
                /\ \A k \in 1..Len(r.calls) : r.calls[k].electrodes = {}
                /\ r.pc = "done" /\ layoutOK =>
                        r.solved /\ {"build", "refine", "solve"} \subseteq r.steps

(***************************************************************************)
(* C2: in sampling mode every call of compute_potential for index i gets   *)
(* the activation set {0} when i = 0 and {i, i + info.num_electrodes} when *)
(* i > 0.                                                                  *)
(***************************************************************************)
C2_ActivationSet ==
    \A p \in Procs :
        LET r == proc[p]
        IN  Sampling(r) =>
                \A k \in 1..Len(r.calls) :
                    LET c == r.calls[k]
                    IN  /\ c.i = 0 => c.electrodes = {0}
                        /\ c.i > 0 => c.electrodes = {c.i, c.i + r.info.num_electrodes}

C2_Witness ==
    \E p \in Procs :
        LET r == proc[p]
        IN  /\ Sampling(r) /\ r.pc = "done" /\ Len(r.calls) = 2
            /\ r.calls[1].i = 0 /\ r.calls[2].i = 1
            /\ r.info.num_electrodes = 2
            /\ r.calls[2].electrodes = {1, 3}

(***************************************************************************)
(* C3: when a sampling call on a valid grid, loaded as declared, has run   *)
(* to its end ("Finished processing."), its output file holds exactly      *)
(* dimx*dimy*dimz lines, line                                              *)
(* i*dimy*dimz + j*dimz + k (0-based) being the potential of grid index    *)
(* (i, j, k), and the evaluations of the call are the grid indices in that *)
(* order, each exactly once.                                               *)
(***************************************************************************)
GridOrder(info) ==
    [m \in 1..(info.dimx * info.dimy * info.dimz) |->
        <<(m - 1) \div (info.dimy * info.dimz),
          ((m - 1) \div info.dimz) % info.dimy,
          (m - 1) % info.dimz>>]

C3_FullGridWritten ==
    \A p \in Procs :
        LET r == proc[p]
        IN  /\ Sampling(r) /\ r.calls # <<>> /\ LastCall(r).done /\ r.solved
            /\ ValidGrid(gridFile)
            /\ Fields(r.info) = [n \in 1..10 |-> Declared(gridFile, n)]
            =>  /\ r.evals = GridOrder(r.info)
                /\ files[LastCall(r).outfile].exists
                /\ [m \in 1..Len(files[LastCall(r).outfile].lines) |->
                        files[LastCall(r).outfile].lines[m].ijk] = GridOrder(r.info)

\* what holds of every sampling call that has run to its end, and of its
\* file when the stream stayed good: the full grid, in order
C3_WhenNothingFails ==
    \A p \in Procs :
        LET r == proc[p]
        IN  Sampling(r) /\ r.calls # <<>> /\ LastCall(r).done /\ r.solved =>
                /\ r.evals = GridOrder(r.info)
                /\ ~LastCall(r).failed =>
                    [m \in 1..Len(files[LastCall(r).outfile].lines) |->
                        files[LastCall(r).outfile].lines[m].ijk] = GridOrder(r.info)

(***************************************************************************)
(* C4: an invocation with start # stop that has returned called            *)
(* compute_potential once per i in [start, stop), ascending, with outfile  *)
(* "field" + decimal(i) + ".txt"; the files it wrote are exactly those of  *)
(* [start, stop); and invocations over disjoint ranges wrote disjoint sets *)
(* of files.                                                               *)
(***************************************************************************)
RangeOf(r) == {i \in AllIdx : r.start <= i /\ i < r.stop}

C4_WritesExactlyItsRange ==
    /\ \A p \in Procs :
        LET r == proc[p]
        IN  Sampling(r) =>
            /\ \A k \in 1..Len(r.calls) :
                /\ r.calls[k].i = r.start + k - 1
                /\ r.calls[k].outfile =
                        <<"f", "i", "e", "l", "d">> \o Decimal(r.calls[k].i)
                            \o <<".", "t", "x", "t">>
            /\ r.opened \subseteq {FieldFile(i) : i \in RangeOf(r)}
            /\ r.pc = "done" =>
                /\ Len(r.calls) = Cardinality(RangeOf(r))
                /\ r.opened = {FieldFile(i) : i \in RangeOf(r)}
    /\ \A p, q \in Procs :
        p # q /\ RangeOf(proc[p]) \cap RangeOf(proc[q]) = {} =>
            proc[p].opened \cap proc[q].opened = {}

\* the frame part of C4, which no failure disturbs: the calls are made in
\* ascending order, one per index, and an invocation opens only files of its
\* own range
C4_OnlyItsRange ==
    /\ \A p \in Procs :
        LET r == proc[p]
        IN  Sampling(r) =>
            /\ \A k \in 1..Len(r.calls) :
                /\ r.calls[k].i = r.start + k - 1
                /\ r.calls[k].outfile = FieldFile(r.calls[k].i)
            /\ r.opened \subseteq {FieldFile(i) : i \in RangeOf(r)}
            /\ r.pc = "done" => Len(r.calls) = Cardinality(RangeOf(r))
    /\ \A p, q \in Procs :
        p # q /\ RangeOf(proc[p]) \cap RangeOf(proc[q]) = {} =>
            proc[p].opened \cap proc[q].opened = {}

(***************************************************************************)
(* C5 as stated: a sampling invocation started after a priming invocation  *)
(* has returned does not invoke the solver's build, refine or solve steps  *)
(* and does not write the cache.                                           *)
(***************************************************************************)
C5_SamplingSkipsSolver ==
    \A p \in Procs :
        LET r == proc[p]
        IN  Sampling(r) /\ r.afterPrime =>
                /\ r.steps \cap {"build", "refine", "solve"} = {}
                /\ r.access # "writing"

(***************************************************************************)
(* C5, amended: a sampling invocation started after a priming invocation   *)
(* has returned makes the same build, refine and solve calls as priming;   *)
(* its solve step finds the cache present and only reads it, gen.cache     *)
(* exists already, and the invocation never writes the cache.              *)
(***************************************************************************)
C5_SamplingAfterPrimingOnlyReads ==
    \A p \in Procs :
        LET r == proc[p]
        IN  Sampling(r) /\ r.afterPrime =>
                /\ cacheDir
                /\ layoutOK => cache = "present"
                /\ r.access # "writing"
                /\ r.pc = "solving" => r.access = "reading"
                /\ r.solved => {"build", "refine", "solve"} \subseteq r.steps

C5_Witness ==
    \E p \in Procs :
        LET r == proc[p]
        IN  /\ Sampling(r) /\ r.afterPrime
            /\ r.pc = "grid" /\ r.solved
            /\ {"build", "refine", "solve"} \subseteq r.steps
            /\ cache = "present"

(***************************************************************************)
(* C6: among the sampling invocations started after a priming invocation   *)
(* has returned, no state has one writing the solved-world cache while     *)
(* another reads or writes it.                                             *)
(***************************************************************************)
C6_NoWriterAmongPrimedSamplers ==
    \A p, q \in Procs :
        /\ p # q
        /\ Sampling(proc[p]) /\ proc[p].afterPrime
        /\ Sampling(proc[q]) /\ proc[q].afterPrime
        => ~(proc[p].access = "writing" /\ proc[q].access # "none")

C6_Witness ==
    \E p, q \in Procs :
        /\ p # q
        /\ Sampling(proc[p]) /\ proc[p].afterPrime /\ proc[p].access = "reading"
        /\ Sampling(proc[q]) /\ proc[q].afterPrime /\ proc[q].access = "reading"

(***************************************************************************)
(* C7: with a malformed or missing grid file (a value line missing, or     *)
(* without a colon, or whose payload is no number) an invocation makes no  *)
(* solver call: it stops in read_grid_info.                                *)
(***************************************************************************)
C7_MalformedGridAborts ==
    Malformed(gridFile) =>
        \A p \in Procs :
            /\ proc[p].pc \in {"idle", "read_grid", "aborted"}
            /\ proc[p].steps = {}

\* the cases of C7 the code does stop in: a value line that is missing or
\* holds no character but blanks
C7_MissingLineAborts ==
    (\E n \in 1..10 : TrimLeft(getline(gridFile, n + 1)) = <<>>) =>
        \A p \in Procs :
            /\ proc[p].pc \in {"idle", "read_grid", "aborted"}
            /\ proc[p].steps = {}

(***************************************************************************)
(* C8: for a valid grid file (eleven lines, every value line with a colon  *)
(* and a numeric payload, the three dims >= 2) the record read_grid_info   *)
(* returns holds the ten declared values, field by field in line order.    *)
(***************************************************************************)
C8_LoaderRoundTrips ==
    ValidGrid(gridFile) =>
        \A p \in Procs :
            proc[p].pc \notin {"idle", "read_grid"} =>
                /\ proc[p].pc # "aborted"
                /\ Fields(proc[p].info) = [n \in 1..10 |-> Declared(gridFile, n)]

\* C8 for the files whose value lines start in column 0
C8_RoundTripsUnindented ==
    ValidGrid(gridFile) /\ (\A n \in 1..10 : gridFile[n + 1][1] \notin WS) =>
        \A p \in Procs :
            proc[p].pc \notin {"idle", "read_grid"} =>
                /\ proc[p].pc # "aborted"
                /\ Fields(proc[p].info) = [n \in 1..10 |-> Declared(gridFile, n)]

(***************************************************************************)
(* C9: a call of compute_potential that fails (the import fails, the       *)
(* output file cannot be opened or a write fails) is the last call of its  *)
(* invocation, and the invocation does not return normally.                *)
(***************************************************************************)
C9_FailureAborts ==
    \A p \in Procs :
        LET r == proc[p]
        IN  \A k \in 1..Len(r.calls) :
                r.calls[k].done /\ r.calls[k].failed =>
                    /\ k = Len(r.calls)
                    /\ r.pc # "done"

(***************************************************************************)
(* C10: a call whose activation set names an electrode outside             *)
(* [0, 2*num_electrodes + 2) sets no voltage and writes no file; hence     *)
(* every line of a field file was sampled with exactly the electrodes of   *)
(* its call's activation set at unit voltage.                              *)
(***************************************************************************)
C10_UnknownElectrodeAborts ==
    \A p \in Procs :
        LET r == proc[p]
        IN  /\ (\E e \in r.electrodes : e < 0 \/ e >= 2 * r.info.num_electrodes + 2) =>
                    r.pc \notin {"grid", "close"}
            /\ r.pc \in {"grid", "close"} =>
                    {nm \in DOMAIN r.volt : r.volt[nm] = 1}
                        = {Decimal(e) : e \in r.electrodes}

\* what the code does instead: the electrodes at unit voltage are those of
\* the activation set that lie in [0, total_electrodes)
C10_InRangeElectrodesAtUnit ==
    \A p \in Procs :
        LET r == proc[p]
        IN  r.pc \in {"grid", "close"} =>
                /\ {nm \in DOMAIN r.volt : r.volt[nm] = 1}
                      = {Decimal(e) : e \in {a \in r.electrodes :
                                0 <= a /\ a < 2 * r.info.num_electrodes + 2}}
                /\ r.volt[<<"GROUND">>] = 0

(***************************************************************************)
(* C11: whenever the step sizes have been computed or a grid point has     *)
(* been evaluated for a grid loaded as its file declares it, dimx, dimy    *)
(* and dimz are all >= 2: no division by dim - 1 = 0, no point asked for   *)
(* on an axis of one point.                                                *)
(***************************************************************************)
C11_DimsAtLeastTwo ==
    \A p \in Procs :
        LET r == proc[p]
        IN  /\ (\A n \in 1..10 : GoodLine(gridFile, n))
            /\ Fields(r.info) = [n \in 1..10 |-> Declared(gridFile, n)]
            /\ (r.pc \in {"grid", "close"} \/ r.evals # <<>>)
            =>  /\ r.info.dimx >= 2
                /\ r.info.dimy >= 2
                /\ r.info.dimz >= 2

\* what the loop bounds alone give: a point is evaluated only on a grid with
\* at least one point along every axis
C11_EvaluatedGridHasPoints ==
    \A p \in Procs :
        proc[p].evals # <<>> => HasPoints(proc[p].info)

(***************************************************************************)
(* C12: with the cache present and grid.txt and layout.dxf unchanged,      *)
(* once sampling of index i has run and returned twice, field<i>.txt holds *)
(* what one run leaves: the second run that opens the file leaves only its *)
(* own output in it (nothing of the first run stays, nothing is appended), *)
(* the two runs write the same line at the same position, and two runs     *)
(* under the same conditions of the output device leave the file exactly   *)
(* as the first run left it.                                               *)
(***************************************************************************)
C12_SecondRunReplaces ==
    LET a == proc[2]
        b == proc[3]
        f == FieldFile(a.start)
    IN  /\ proc[1].pc = "done" /\ proc[1].solved
        /\ a.pc = "done" /\ b.pc = "done"
        /\ a.start = b.start /\ a.stop = a.start + 1 /\ b.stop = b.start + 1
        =>  /\ f \in b.opened => files[f] = [exists |-> TRUE, lines |-> b.out]
            /\ f \notin b.opened =>
                    files[f] = [exists |-> f \in a.opened, lines |-> a.out]
            /\ \A m \in 1..Len(a.out) : m <= Len(b.out) => a.out[m] = b.out[m]
            /\ (f \in a.opened <=> f \in b.opened) /\ a.room = b.room =>
                    files[f] = [exists |-> f \in a.opened, lines |-> a.out]

\* both runs wrote the whole grid of several points, the second over the
\* file the first had left
C12_Witness ==
    LET a == proc[2]
        b == proc[3]
        f == FieldFile(a.start)
    IN  /\ proc[1].pc = "done" /\ proc[1].solved
        /\ a.pc = "done" /\ b.pc = "done"
        /\ a.start = b.start /\ a.stop = a.start + 1 /\ b.stop = b.start + 1
        /\ f \in a.opened /\ f \in b.opened
        /\ ~LastCall(a).failed /\ ~LastCall(b).failed
        /\ Len(a.out) > 1
        /\ files[f].lines = a.out

(***************************************************************************)
(* C13: in a call with a nonempty activation set, from before the first    *)
(* grid point is evaluated until the file is closed, every electrode e of  *)
(* [0, 2*num_electrodes + 2) is at voltage 1 if e is in the activation set *)
(* and at 0 otherwise, and GROUND is at 0; no step of the grid walk        *)
(* changes a voltage.                                                      *)
(***************************************************************************)
C13_VoltagesSetBeforeWalk ==
    /\ [](\A p \in Procs :
            LET r == proc[p]
                n == 2 * r.info.num_electrodes + 2
            IN  r.pc \in {"grid", "close"} =>
                    /\ DOMAIN r.volt = {Decimal(e) : e \in 0..(n - 1)} \cup {<<"GROUND">>}
                    /\ \A e \in 0..(n - 1) :
                            r.volt[Decimal(e)] = IF e \in r.electrodes THEN 1 ELSE 0
                    /\ r.volt[<<"GROUND">>] = 0)
    /\ [][\A p \in Procs :
            proc[p].pc = "grid" => proc'[p].volt = proc[p].volt]_vars

\* the walk is under way for an index > 0: the electrode and its mirror are
\* at unit voltage, others are at 0
C13_Witness ==
    \E p \in Procs :
        LET r == proc[p]
        IN  /\ r.pc = "grid" /\ r.evals # <<>>
            /\ r.i > 0
            /\ r.volt[Decimal(r.i)] = 1
            /\ r.volt[Decimal(r.info.num_electrodes + r.i)] = 1
            /\ \E nm \in DOMAIN r.volt : nm # <<"GROUND">> /\ r.volt[nm] = 0

(***************************************************************************)
(* C14: for every value line with a colon and a numeric payload, whatever  *)
(* blanks stand before the label, after the colon or after the value,      *)
(* parse_param returns the number the payload denotes (it neither throws   *)
(* nor leaves the value indeterminate), and read_grid_info stores it.      *)
(***************************************************************************)
C14_ParsesPayload ==
    \A p \in Procs :
        proc[p].pc \notin {"idle", "read_grid"} =>
            \A n \in 1..10 :
                GoodLine(gridFile, n) =>
                    /\ \A g \in 0..GarbageMax :
                            LET x == parse_param(gridFile[n + 1], g)
                            IN  /\ ~x.thrown
                                /\ ~x.failed
                                /\ x.val = Declared(gridFile, n)
                    /\ proc[p].pc # "aborted" =>
                            Fields(proc[p].info)[n] = Declared(gridFile, n)

\* C14 for the value lines that start in column 0: blanks after the colon
\* and after the value do not change the result
C14_ParsesUnindented ==
    \A p \in Procs :
        proc[p].pc \notin {"idle", "read_grid"} =>
            \A n \in 1..10 :
                GoodLine(gridFile, n) /\ gridFile[n + 1][1] \notin WS =>
                    /\ \A g \in 0..GarbageMax :
                            LET x == parse_param(gridFile[n + 1], g)
                            IN  /\ ~x.thrown
                                /\ ~x.failed
                                /\ x.val = Declared(gridFile, n)
                    /\ proc[p].pc # "aborted" =>
                            Fields(proc[p].info)[n] = Declared(gridFile, n)

(***************************************************************************)
(* C15: a sampling invocation is never stopped for want of the cache: it   *)
(* aborts nowhere after read_grid_info, every call it has returned from    *)
(* with layout.dxf importable has built and solved the world, and one      *)
(* whose solve is under way while savedworld.data is absent is writing it. *)
(* Hence two sampling invocations started before any priming has returned  *)
(* can be writing the cache at the same time (C15_Witness).                *)
(***************************************************************************)
C15_SamplerBuildsMissingCache ==
    \A p \in Procs :
        LET r == proc[p]
        IN  Sampling(r) =>
                /\ r.pc # "aborted"
                /\ layoutOK /\ r.calls # <<>> /\ LastCall(r).done => r.solved
                /\ r.pc = "solving" /\ cache = "absent" => r.access = "writing"

\* both samplers, started before any priming returned, are inside solve()
\* writing savedworld.data
C15_Witness ==
    /\ ~primed /\ cache = "absent"
    /\ \A p \in Samplers :
        /\ Sampling(proc[p]) /\ ~proc[p].afterPrime
        /\ proc[p].pc = "solving" /\ proc[p].access = "writing"
====
